---- MODULE Spec2Model ----
(***************************************************************************)
(* Model of streamlit_app.py: a Streamlit page script that is re-executed  *)
(* top to bottom on every user interaction.  The script opens a Snowflake  *)
(* session, loads REVIEWS_WITH_SENTIMENT, renders a mean-by-product chart, *)
(* a product filter with table, a score histogram, and a chat box that     *)
(* forwards the question to SNOWFLAKE.CORTEX.COMPLETE.                      *)
(*                                                                         *)
(* Every st.* call of the script is a step of its own: it is where         *)
(* Streamlit abandons the run once a new interaction has arrived.  The     *)
(* value of pc names the st.* call (or the remote call) the script is      *)
(* about to make; the statements between two calls belong to the step of   *)
(* the call they follow.                                                   *)
(*                                                                         *)
(* Text is modelled as a sequence of tokens: the single quote is a token   *)
(* of its own, and every other token of a prompt is a run of characters    *)
(* without a single quote.  A table cell is a tagged value (null, string,  *)
(* number, timestamp or NaT).                                              *)
(***************************************************************************)
EXTENDS Integers, Sequences, FiniteSets, TLC

\* ---------------------------------------------------------------- bounds
MaxReruns == 3        \* script runs of one browser session
MaxRows == 2          \* rows the SELECT of the first run returns (SpecData)
MaxLen == 2           \* tokens of the question of the second run (SpecEscape)
MaxSamples == 120     \* numeric scores the first run loads (SpecBins)

\* ------------------------------------------------------- program constants
MinBins == 5
MaxBins == 40

\* ------------------------------------------------------------------ text
Quote == "'"
AllProducts == "All Products"
SelectSql == <<"SELECT * FROM REVIEWS_WITH_SENTIMENT">>
ModelOptions == <<"mistral-large2", "snowflake-arctic", "llama3-70b">>
ApologyPrefix == <<"Sorry, Cortex call failed: ">>
SystemText ==
    << "You are a helpful Snowflake data assistant. ",
       "When asked for metrics, provide a concise Snowflake SQL the user could run. ",
       "Use the table name REVIEWS_WITH_SENTIMENT and existing column names." >>
DateColumns == {"REVIEW_DATE", "SHIPPING_DATE"}

\* ---------------------------------------------------------------- cells
Null == [kind |-> "null", str |-> "", num |-> 0]
Str(s) == [kind |-> "str", str |-> s, num |-> 0]
Num(n) == [kind |-> "num", str |-> "", num |-> n]
NaN == [kind |-> "nan", str |-> "", num |-> 0]
\* A timestamp, named by the text it was parsed from or by its count of
\* nanoseconds since the epoch.
Timestamp(s, n) == [kind |-> "date", str |-> s, num |-> n]
NaT == [kind |-> "nat", str |-> "", num |-> 0]

ProductValues == {Null, Str("A"), Str("a"), Str(AllProducts)}
ScoreValues == {Null, Str("n/a"), Num(1), Str("3")}
DateValues == {Null, Str("n/a"), Str("2024-01-05")}
ColumnSets == {<<>>, <<"PRODUCT">>, <<"SENTIMENT_SCORE">>,
               <<"PRODUCT", "SENTIMENT_SCORE">>,
               <<"REVIEW_DATE">>, <<"SHIPPING_DATE", "REVIEW_DATE">>}

Range(f) == {f[i] : i \in DOMAIN f}
HasColumn(df, c) == c \in Range(df.columns)

ValuesOf(c) == IF c = "PRODUCT" THEN ProductValues
               ELSE IF c = "SENTIMENT_SCORE" THEN ScoreValues
               ELSE DateValues
RowsOf(cols) ==
    {r \in [Range(cols) -> ProductValues \cup ScoreValues \cup DateValues] :
        \A c \in Range(cols) : r[c] \in ValuesOf(c)}
SeqsUpTo(S, n) == UNION {[1..k -> S] : k \in 0..n}
TablesUpTo(n) ==
    UNION {{[columns |-> cols, rows |-> rs] : rs \in SeqsUpTo(RowsOf(cols), n)} :
              cols \in ColumnSets}

\* A table with n numeric scores followed by one non-numeric score.
ScoreTable(n) ==
    [columns |-> <<"SENTIMENT_SCORE">>,
     rows |-> [i \in 1..(n + 1) |->
                 [c \in {"SENTIMENT_SCORE"} |-> IF i <= n THEN Num(1) ELSE Str("n/a")]]]
\* The sample sizes the specification of the histogram names.
ListedSizes == {1, 24, 25, 26, 1600, 1601, 10000}

\* A table whose column names bring a single quote into the prompt.
QuotedTable == [columns |-> <<"PRODUCT", Quote>>, rows |-> <<>>]
Alphabet == {Quote, "a"}

NoFrame == [columns |-> <<>>, rows |-> <<>>]
NoHandle == 0
AmbientHandle == 1
NoInput == <<>>
UserTexts == {<<"it", Quote, "s">>}
ReplyTexts == {<<"SELECT 1">>}
ErrorDetails == {<<"timeout">>}
NoResult == [kind |-> "none", text |-> <<>>]
NoRequest == [kind |-> "none", q |-> <<>>]
Request(q) == [kind |-> "request", q |-> q]

\* ----------------------------------------- what script run n may be given
\* By run number n: the tables the SELECT of run n may return, and the chat
\* texts the user may submit for run n.  Each specification lets one run range over a large set
\* and the other runs over a small one.
Runs == 1..(MaxReruns + 1)
ChatTables ==
    { [columns |-> <<>>, rows |-> <<>>],
      [columns |-> <<"PRODUCT", "SENTIMENT_SCORE">>,
       rows |-> << [c \in {"PRODUCT", "SENTIMENT_SCORE"} |->
                      IF c = "PRODUCT" THEN Str("A") ELSE Num(1)] >>] }
FewTables == [n \in Runs |-> ChatTables]
DataTables == [n \in Runs |-> IF n = 1 THEN TablesUpTo(MaxRows) ELSE ChatTables]
BinTables ==
    [n \in Runs |->
        IF n = 1 THEN {ScoreTable(k) : k \in (0..MaxSamples) \cup ListedSizes}
        ELSE ChatTables]
QuotedTables == [n \in Runs |-> {QuotedTable}]
ChatQuestions == [n \in Runs |-> UserTexts]
Questions ==
    [n \in Runs |-> IF n = 2 THEN SeqsUpTo(Alphabet, MaxLen) \ {<<>>} ELSE UserTexts]

VARIABLES
    active_sessions,  \* the sessions Snowpark holds as active in this process
    other_pc,         \* position of the first run of another browser session of the
                      \* process in its lines 7-27
    session,          \* the script global `session`, NoHandle for None
    handles,          \* the handles the runs of this browser session have bound
    reruns,           \* number of script runs started
    pc,               \* the call the running script is about to make, "idle" between runs
    pending,          \* the interaction Streamlit has received and not yet served
    chat_input_shown, \* the page in the browser shows the chat input
    user_q,           \* value st.chat_input returns in this run
    issued,           \* statements issued in this run, in order
    load_result,      \* how the fixed SELECT of this run ended
    df_reviews,
    product_sent,
    choice,           \* index the product selectbox holds, 0 before it is drawn
    product,
    filtered,
    s,
    bins,
    model,
    prompt,
    sql,
    call_result,      \* how the call in cortex_complete ended, for the try/except
    turn,             \* turns the replay loop of line 120 has completed in this run
    session_state,    \* st.session_state, survives script runs
    ui                \* elements rendered by this run, in order

vars == <<active_sessions, other_pc, session, handles, reruns, pc, pending,
          chat_input_shown, user_q, issued,
          load_result,
          df_reviews, product_sent, choice, product, filtered, s, bins, model,
          prompt, sql, call_result, turn, session_state, ui>>

run_vars == <<active_sessions, other_pc, session, handles, reruns, pending,
              chat_input_shown, user_q, issued,
              load_result>>
data_vars == <<df_reviews, product_sent, choice, product, filtered, s, bins>>
chat_vars == <<model, prompt, sql, call_result, turn, session_state>>

Elem(kind, text, body) == [kind |-> kind, text |-> text, body |-> body]

chat_msgs == IF "chat_msgs" \in DOMAIN session_state
             THEN session_state["chat_msgs"] ELSE <<>>

Init ==
    /\ active_sessions \in {{}, {AmbientHandle}}
    /\ other_pc = "bootstrap"
    /\ session = NoHandle
    /\ handles = {}
    /\ reruns = 0
    /\ pc = "idle"
    /\ pending = Request(NoInput)
    /\ chat_input_shown = FALSE
    /\ user_q = NoInput
    /\ issued = <<>>
    /\ load_result = "none"
    /\ df_reviews = NoFrame
    /\ product_sent = <<>>
    /\ choice = 0
    /\ product = Null
    /\ filtered = NoFrame
    /\ s = <<>>
    /\ bins = 0
    /\ model = ""
    /\ prompt = <<>>
    /\ sql = <<>>
    /\ call_result = NoResult
    /\ turn = 0
    /\ session_state = <<>>
    /\ ui = <<>>

\* The user interacts with a widget or asks for a rerun, at any time: between
\* script runs or while a run is in progress.  Streamlit keeps the request until the running
\* script reaches its next st.* call or ends.  The value is what
\* st.chat_input will return in the run the request starts; chat text can be
\* submitted only while the page shows the chat input.
Interact(questions) ==
    /\ pending = NoRequest
    /\ 1 <= reruns
    /\ \E q \in {NoInput} \cup questions[reruns + 1] :
          /\ q # NoInput => chat_input_shown
          /\ pending' = Request(q)
    /\ UNCHANGED <<active_sessions, other_pc, session, handles, reruns, pc, chat_input_shown,
                 user_q, issued,
                 load_result, ui>>
    /\ UNCHANGED data_vars
    /\ UNCHANGED chat_vars

\* Streamlit serves the request (the first one is the page load): a script
\* run starts with fresh script globals; only st.session_state survives.
StartRun ==
    /\ pc = "idle"
    /\ pending # NoRequest
    /\ reruns < MaxReruns
    /\ reruns' = reruns + 1
    /\ user_q' = pending.q
    /\ pending' = NoRequest
    /\ pc' = "bootstrap"
    /\ issued' = <<>>
    /\ load_result' = "none"
    /\ df_reviews' = NoFrame
    /\ product_sent' = <<>>
    /\ choice' = 0
    /\ product' = Null
    /\ filtered' = NoFrame
    /\ s' = <<>>
    /\ bins' = 0
    /\ model' = ""
    /\ prompt' = <<>>
    /\ sql' = <<>>
    /\ call_result' = NoResult
    /\ turn' = 0
    /\ ui' = <<>>
    /\ session' = NoHandle
    /\ UNCHANGED <<active_sessions, other_pc, handles, chat_input_shown, session_state>>

\* The values of pc at which the script is about to make an st.* call.
RenderPoints ==
    {"title", "caption", "mean_head", "mean_body", "filter_head", "filter_body",
     "reviews_head", "reviews_table", "hist_head", "hist_body", "chat_rule",
     "chat_header", "model_select", "replay_message", "replay_write", "chat_input",
     "user_message", "user_write", "reply_message", "reply_write"}

\* With a request pending, the next st.* call of the running script raises
\* Streamlit's rerun control exception, which is no Exception and which no
\* try of the script encloses: the run is abandoned at that call, whichever
\* st.* call it is, with nothing rendered or bound by it.
StopAtRender ==
    /\ pc \in RenderPoints
    /\ pending # NoRequest
    /\ pc' = "idle"
    /\ UNCHANGED <<run_vars, ui>>
    /\ UNCHANGED data_vars
    /\ UNCHANGED chat_vars

\* An st.* call made with no request pending renders its element.
Render(e) ==
    /\ pending = NoRequest
    /\ ui' = Append(ui, e)

\* An uncaught exception ends the run; Streamlit shows the exception, and
\* the page keeps only what this run has rendered.  (The st.* calls of the
\* script all come after the statements that can raise, and a run that
\* raises has not reached the chat input.)
Halt == /\ pc' = "idle"
        /\ ui' = Append(ui, Elem("exception", "", <<>>))
        /\ chat_input_shown' = FALSE

\* get_active_session(): the one session Snowpark holds as active; it raises
\* when there is none and when there is more than one.
HasActiveSession == Cardinality(active_sessions) = 1
ActiveSession == CHOOSE h \in active_sessions : TRUE

\* Session.builder.configs(conn).create() when n sessions are registered: a
\* handle none of them has.
NewHandle(n) == AmbientHandle + n + 1

\* Lines 7-15: `session` is the active session when line 11 returns it; when
\* line 11 raises it stays None and the script goes on to build one.
GetActiveSession ==
    /\ pc = "bootstrap"
    /\ IF HasActiveSession
       THEN /\ session' = ActiveSession
            /\ handles' = handles \cup {session'}
            /\ pc' = "title"
       ELSE /\ UNCHANGED <<session, handles>>
            /\ pc' = "creating"
    /\ UNCHANGED <<active_sessions, other_pc, reruns, pending, chat_input_shown, user_q,
                 issued, load_result, ui>>
    /\ UNCHANGED data_vars
    /\ UNCHANGED chat_vars

\* Line 27: create() returns after its wait on the network; Snowpark adds the
\* new session to its active sessions, whatever they are by then.
CreateSession ==
    /\ pc = "creating"
    /\ session' = NewHandle(Cardinality(active_sessions))
    /\ active_sessions' = active_sessions \cup {session'}
    /\ handles' = handles \cup {session'}
    /\ pc' = "title"
    /\ UNCHANGED <<other_pc, reruns, pending, chat_input_shown, user_q, issued, load_result,
                 ui>>
    /\ UNCHANGED data_vars
    /\ UNCHANGED chat_vars

\* Lines 17-27 raising (missing secret, connection refused): `session` is
\* None when the run ends.
BootstrapRaise ==
    /\ pc = "creating"
    /\ Halt
    /\ UNCHANGED <<active_sessions, other_pc, session, handles, reruns, pending, user_q,
                 issued, load_result>>
    /\ UNCHANGED data_vars
    /\ UNCHANGED chat_vars

\* Lines 7-15 in the script thread of another browser session of the same
\* Streamlit process (its first run): it takes the active session, or goes on
\* to build one.
OtherGetActiveSession ==
    /\ other_pc = "bootstrap"
    /\ other_pc' = IF HasActiveSession THEN "done" ELSE "creating"
    /\ UNCHANGED <<active_sessions, session, handles, reruns, pc, pending, chat_input_shown,
                 user_q, issued, load_result, ui>>
    /\ UNCHANGED data_vars
    /\ UNCHANGED chat_vars

\* Line 27 in that thread: its session is added to the active sessions.
OtherCreateSession ==
    /\ other_pc = "creating"
    /\ active_sessions' = active_sessions \cup {NewHandle(Cardinality(active_sessions))}
    /\ other_pc' = "done"
    /\ UNCHANGED <<session, handles, reruns, pc, pending, chat_input_shown, user_q, issued,
                 load_result, ui>>
    /\ UNCHANGED data_vars
    /\ UNCHANGED chat_vars

\* Line 29.
Title ==
    /\ pc = "title"
    /\ Render(Elem("title", "Avalanche Streamlit App (Cloud)", <<>>))
    /\ pc' = "load"
    /\ UNCHANGED run_vars
    /\ UNCHANGED data_vars
    /\ UNCHANGED chat_vars

Statement(h, text) == [handle |-> h, text |-> text]

\* The texts of the model that pandas parses as a date.
DateTexts == {"2024-01-05"}

\* pd.to_datetime(..., errors="coerce") on one cell: a date text becomes its
\* timestamp, a number the timestamp that many nanoseconds after the epoch,
\* a timestamp stays, and a missing or unparsable cell becomes NaT.
ToDatetime(c) ==
    IF c.kind = "str" /\ c.str \in DateTexts THEN Timestamp(c.str, 0)
    ELSE IF c.kind = "num" THEN Timestamp("", c.num)
    ELSE IF c.kind = "date" THEN c
    ELSE NaT

\* Lines 46-48: each date column the table has is replaced by its parse.
ParseDates(df) ==
    [columns |-> df.columns,
     rows |-> [i \in DOMAIN df.rows |->
                 [c \in DOMAIN df.rows[i] |->
                    IF c \in DateColumns THEN ToDatetime(df.rows[i][c])
                    ELSE df.rows[i][c]]]]

\* Line 43, session.sql(...).to_pandas() called: the fixed SELECT is issued
\* and the script waits for its result.
IssueSelect ==
    /\ pc = "load"
    /\ issued' = Append(issued, Statement(session, SelectSql))
    /\ pc' = "loading"
    /\ UNCHANGED <<active_sessions, other_pc, session, handles, reruns, pending,
                 chat_input_shown, user_q, load_result, ui>>
    /\ UNCHANGED data_vars
    /\ UNCHANGED chat_vars

\* Lines 43-48: the fixed SELECT returns a table and its date columns are
\* parsed.  No st.* call lies on the way, so a pending request does not stop
\* it.
LoadReviews(tables) ==
    /\ pc = "loading"
    /\ load_result' = "returned"
    /\ \E t \in tables[reruns] : df_reviews' = ParseDates(t)
    /\ pc' = "caption"
    /\ UNCHANGED <<active_sessions, other_pc, session, handles, reruns, pending,
                 chat_input_shown, user_q, issued, ui>>
    /\ UNCHANGED <<product_sent, choice, product, filtered, s, bins>>
    /\ UNCHANGED chat_vars

\* Variant of LoadRaise: the failure is swallowed and the run goes on with an
\* empty table.
LoadRaiseSwallowed ==
    /\ pc = "loading"
    /\ load_result' = "raised"
    /\ pc' = "caption"
    /\ UNCHANGED <<active_sessions, other_pc, session, handles, reruns, pending,
                 chat_input_shown, user_q, issued, ui>>
    /\ UNCHANGED data_vars
    /\ UNCHANGED chat_vars

\* Line 43: the fixed SELECT raises; nothing catches it.
LoadRaise ==
    /\ pc = "loading"
    /\ load_result' = "raised"
    /\ Halt
    /\ UNCHANGED <<active_sessions, other_pc, session, handles, reruns, pending, user_q,
                 issued>>
    /\ UNCHANGED data_vars
    /\ UNCHANGED chat_vars

\* The three digits of a group below the leading one.
Pad3(r) == IF r < 10 THEN <<"00", ToString(r)>>
           ELSE IF r < 100 THEN <<"0", ToString(r)>>
           ELSE <<ToString(r)>>

RECURSIVE Grouped(_)
\* Line 50, f"{n:,}": the decimal digits in groups of three, separated by
\* commas.
Grouped(n) == IF n < 1000 THEN <<ToString(n)>>
              ELSE Grouped(n \div 1000) \o <<",">> \o Pad3(n % 1000)

\* Line 50.
Caption ==
    /\ pc = "caption"
    /\ Render(Elem("caption", "Loaded rows from REVIEWS_WITH_SENTIMENT",
                   Grouped(Len(df_reviews.rows))))
    /\ pc' = "mean_head"
    /\ UNCHANGED run_vars
    /\ UNCHANGED data_vars
    /\ UNCHANGED chat_vars

\* ------------------------------------------------- dataframe operations
Max(a, b) == IF a >= b THEN a ELSE b
Min(a, b) == IF a <= b THEN a ELSE b

\* The texts that are the decimal numeral of a number, and that number.
IsNumeral(t) == \E n \in 0..9 : ToString(n) = t
NumeralValue(t) == CHOOSE n \in 0..9 : ToString(n) = t

\* pd.to_numeric(..., errors="coerce") on one cell: a number stays, a text
\* that is a numeral becomes its number, anything else is NaN.
ToNumeric(c) ==
    IF c.kind = "num" THEN c
    ELSE IF c.kind = "str" /\ IsNumeral(c.str) THEN Num(NumeralValue(c.str))
    ELSE NaN

Column(df, c) == [i \in 1..Len(df.rows) |-> df.rows[i][c]]
IsNumber(c) == c.kind = "num"
NotNull(c) == c.kind # "null"

\* Python's str ordering on the strings of the model ("A" < "All Products" < "a").
StrOrder == <<"A", AllProducts, "a", "n/a">>
StrRank(x) == CHOOSE i \in DOMAIN StrOrder : StrOrder[i] = x
StrLess(a, b) == StrRank(a.str) < StrRank(b.str)

\* sorted(set): the one strictly increasing sequence over the set.
Sorted(S) ==
    CHOOSE q \in [1..Cardinality(S) -> S] :
        /\ Range(q) = S
        /\ \A i, j \in DOMAIN q : i < j => StrLess(q[i], q[j])

\* Series.dropna().unique().tolist(), as a set.
Unique(col) == {c \in Range(col) : NotNull(c)}

RECURSIVE SumNum(_)
SumNum(q) == IF q = <<>> THEN 0 ELSE Head(q).num + SumNum(Tail(q))

\* Series.mean() of one group: NaN values are skipped; sum over count, and
\* count 0 stands for NaN.
MeanOf(col) ==
    LET valid == SelectSeq(col, IsNumber)
    IN  [sum |-> SumNum(valid), cnt |-> Len(valid)]

MeanIsNaN(m) == m.cnt = 0
MeanLE(a, b) ==
    \/ MeanIsNaN(b)
    \/ ~MeanIsNaN(a) /\ a.sum * b.cnt <= b.sum * a.cnt

\* groupby("PRODUCT")["SENTIMENT_SCORE"].mean(): one entry per non-null key,
\* keys ascending; a group whose scores are all NaN keeps its entry.
GroupMeans(df) ==
    LET keys == Sorted(Unique(Column(df, "PRODUCT")))
        scores(k) ==
            LET InGroup(r) == r["PRODUCT"] = k
                members == SelectSeq(df.rows, InGroup)
            IN  [i \in 1..Len(members) |-> ToNumeric(members[i]["SENTIMENT_SCORE"])]
    IN  [i \in 1..Len(keys) |-> [key |-> keys[i], mean |-> MeanOf(scores(keys[i]))]]

\* Series.sort_values(): ascending, NaN last; the order of ties is not fixed.
SortValues(g) ==
    {q \in [DOMAIN g -> Range(g)] :
        /\ Range(q) = Range(g)
        /\ \A i, j \in DOMAIN q : i < j => MeanLE(q[i].mean, q[j].mean)}


BothColumns(df) == HasColumn(df, "PRODUCT") /\ HasColumn(df, "SENTIMENT_SCORE")

\* Lines 55-62: the subheader, then the aggregation when both columns exist.
MeanHeader ==
    /\ pc = "mean_head"
    /\ Render(Elem("subheader", "Average Sentiment by Product", <<>>))
    /\ product_sent' \in IF BothColumns(df_reviews)
                         THEN SortValues(GroupMeans(df_reviews))
                         ELSE {product_sent}
    /\ pc' = "mean_body"
    /\ UNCHANGED run_vars
    /\ UNCHANGED <<df_reviews, choice, product, filtered, s, bins>>
    /\ UNCHANGED chat_vars

\* Lines 62-67: the chart, or one of the two notices.
MeanBody ==
    /\ pc = "mean_body"
    /\ Render(IF BothColumns(df_reviews)
              THEN IF Len(product_sent) > 0
                   THEN Elem("bar_chart", "product_sent", <<>>)
                   ELSE Elem("info", "No sentiment scores to aggregate.", <<>>)
              ELSE Elem("info", "Need columns PRODUCT and SENTIMENT_SCORE for this chart.",
                        <<>>))
    /\ pc' = "filter_head"
    /\ UNCHANGED run_vars
    /\ UNCHANGED data_vars
    /\ UNCHANGED chat_vars

\* Line 75: the options of the product selectbox.
ProductOptions(df) == <<Str(AllProducts)>> \o Sorted(Unique(Column(df, "PRODUCT")))

\* Lines 76-79.
FilterBy(df, p) ==
    IF p # Str(AllProducts)
    THEN LET Matches(r) == r["PRODUCT"] = p
         IN  [columns |-> df.columns, rows |-> SelectSeq(df.rows, Matches)]
    ELSE df

\* Lines 72-73 and 81-82: the subheader; without a PRODUCT column product and
\* filtered are bound before the warning is rendered.
FilterHeader ==
    /\ pc = "filter_head"
    /\ Render(Elem("subheader", "Filter by Product", <<>>))
    /\ IF HasColumn(df_reviews, "PRODUCT")
       THEN UNCHANGED <<product, filtered>>
       ELSE /\ product' = Str(AllProducts)
            /\ filtered' = df_reviews
    /\ pc' = "filter_body"
    /\ UNCHANGED run_vars
    /\ UNCHANGED <<df_reviews, product_sent, choice, s, bins>>
    /\ UNCHANGED chat_vars

\* Lines 74-79, or line 83: the selectbox, whose value the user has chosen,
\* and the filter; or the warning.
FilterBody ==
    /\ pc = "filter_body"
    /\ IF HasColumn(df_reviews, "PRODUCT")
       THEN /\ Render(Elem("selectbox", "Choose a product", <<>>))
            /\ choice' \in DOMAIN ProductOptions(df_reviews)
            /\ product' = ProductOptions(df_reviews)[choice']
            /\ filtered' = FilterBy(df_reviews, product')
       ELSE /\ Render(Elem("warning", "PRODUCT column not found; showing all rows.", <<>>))
            /\ UNCHANGED <<choice, product, filtered>>
    /\ pc' = "reviews_head"
    /\ UNCHANGED run_vars
    /\ UNCHANGED <<df_reviews, product_sent, s, bins>>
    /\ UNCHANGED chat_vars

\* Line 85.
ReviewsHeader ==
    /\ pc = "reviews_head"
    /\ Render(Elem("subheader", "Reviews for", <<product.str>>))
    /\ pc' = "reviews_table"
    /\ UNCHANGED run_vars
    /\ UNCHANGED data_vars
    /\ UNCHANGED chat_vars

\* Line 86.
ReviewsTable ==
    /\ pc = "reviews_table"
    /\ Render(Elem("dataframe", "filtered", <<>>))
    /\ pc' = "hist_head"
    /\ UNCHANGED run_vars
    /\ UNCHANGED data_vars
    /\ UNCHANGED chat_vars

\* The largest k with k * k <= n: int(math.sqrt(n)).
FloorSqrt(n) == CHOOSE k \in 0..n : k * k <= n /\ (k + 1) * (k + 1) > n

\* Variant of HistBins: the square root is rounded to the nearest integer.
HistBinsRounded(n) ==
    LET r == CHOOSE k \in 0..(n + 1) :
                 (2 * k - 1) * (2 * k - 1) <= 4 * n /\ 4 * n < (2 * k + 1) * (2 * k + 1)
    IN  Max(MinBins, Min(MaxBins, r))

\* Line 96: int(max(5, min(40, math.sqrt(n)))); int() truncates, and the
\* truncation commutes with the clamp to the integers 5 and 40.
HistBins(n) == Max(MinBins, Min(MaxBins, FloorSqrt(n)))

\* Line 93: pd.to_numeric(filtered["SENTIMENT_SCORE"], errors="coerce").dropna()
NumericScores(df) ==
    LET col == Column(df, "SENTIMENT_SCORE")
    IN  SelectSeq([i \in DOMAIN col |-> ToNumeric(col[i])], IsNumber)


\* Lines 91-98: the subheader, then s and the bin count.  The bin membership
\* computed by pd.cut is not modelled, only the number of bins handed to it.
HistHeader ==
    /\ pc = "hist_head"
    /\ Render(Elem("subheader", "Sentiment Score Distribution", <<product.str>>))
    /\ IF HasColumn(filtered, "SENTIMENT_SCORE")
       THEN /\ s' = NumericScores(filtered)
            /\ bins' = IF Len(s') > 0 THEN HistBins(Len(s')) ELSE bins
       ELSE UNCHANGED <<s, bins>>
    /\ pc' = "hist_body"
    /\ UNCHANGED run_vars
    /\ UNCHANGED <<df_reviews, product_sent, choice, product, filtered>>
    /\ UNCHANGED chat_vars

\* Lines 99-103: the chart, or one of the two notices.
HistBody ==
    /\ pc = "hist_body"
    /\ Render(IF HasColumn(filtered, "SENTIMENT_SCORE")
              THEN IF Len(s) > 0
                   THEN Elem("bar_chart", "hist", <<>>)
                   ELSE Elem("info", "No numeric SENTIMENT_SCORE values to plot.", <<>>)
              ELSE Elem("info", "SENTIMENT_SCORE column not found.", <<>>))
    /\ pc' = "chat_rule"
    /\ UNCHANGED run_vars
    /\ UNCHANGED data_vars
    /\ UNCHANGED chat_vars

\* ------------------------------------------------------------------ chat
\* str.replace(old, new) on a token sequence: leftmost matches, left to right,
\* without rescanning what was substituted.
RECURSIVE Replace(_, _, _)
Replace(t, old, new) ==
    IF Len(t) < Len(old) THEN t
    ELSE IF SubSeq(t, 1, Len(old)) = old
         THEN new \o Replace(SubSeq(t, Len(old) + 1, Len(t)), old, new)
         ELSE <<Head(t)>> \o Replace(Tail(t), old, new)

RECURSIVE Join(_, _)
Join(q, sep) ==
    IF q = <<>> THEN <<>>
    ELSE IF Len(q) = 1 THEN q
         ELSE <<Head(q), sep>> \o Join(Tail(q), sep)

\* Line 115.
Context(df) ==
    <<"Table REVIEWS_WITH_SENTIMENT has columns: ">> \o Join(df.columns, ", ")
        \o <<". Total rows: ", ToString(Len(df.rows)), ".">>

\* Line 135.
BuildPrompt(df, q) ==
    SystemText \o <<"\n\nContext: ">> \o Context(df) \o <<"\n\nUser: ">> \o q
        \o <<"\nAssistant:">>

\* Variant of EscapeQuotes: only the first single quote is doubled.
RECURSIVE EscapeFirstQuote(_)
EscapeFirstQuote(p) ==
    IF p = <<>> THEN <<>>
    ELSE IF Head(p) = Quote THEN <<Quote, Quote>> \o Tail(p)
         ELSE <<Head(p)>> \o EscapeFirstQuote(Tail(p))

\* Line 36.
EscapeQuotes(p) == Replace(p, <<Quote>>, <<Quote, Quote>>)

\* Lines 36-37: the statement cortex_complete builds.
CompleteSql(m, p) ==
    <<"SELECT SNOWFLAKE.CORTEX.COMPLETE('", m, "', '">> \o EscapeQuotes(p)
        \o <<"') AS RESP">>

\* Variant of InitChatMsgs: the list is set on every run.
ResetChatMsgs(ss) == ("chat_msgs" :> <<>>) @@ ss

\* Lines 117-118.
InitChatMsgs(ss) == IF "chat_msgs" \notin DOMAIN ss THEN ss @@ ("chat_msgs" :> <<>>) ELSE ss


\* Line 108.
ChatRule ==
    /\ pc = "chat_rule"
    /\ Render(Elem("markdown", "---", <<>>))
    /\ pc' = "chat_header"
    /\ UNCHANGED run_vars
    /\ UNCHANGED data_vars
    /\ UNCHANGED chat_vars

\* Line 109.
ChatHeader ==
    /\ pc = "chat_header"
    /\ Render(Elem("header", "Avalanche Assistant (Cortex)", <<>>))
    /\ pc' = "model_select"
    /\ UNCHANGED run_vars
    /\ UNCHANGED data_vars
    /\ UNCHANGED chat_vars

\* Lines 112-120: the model selectbox, whose value the user has chosen, the
\* creation of chat_msgs, and the entry of the replay loop.
ModelSelect ==
    /\ pc = "model_select"
    /\ Render(Elem("selectbox", "Cortex model", <<>>))
    /\ model' \in Range(ModelOptions)
    /\ session_state' = InitChatMsgs(session_state)
    /\ turn' = 0
    /\ pc' = IF Len(session_state'["chat_msgs"]) > 0 THEN "replay_message" ELSE "chat_input"
    /\ UNCHANGED run_vars
    /\ UNCHANGED <<prompt, sql, call_result>>
    /\ UNCHANGED data_vars

\* Line 121: the container of the next stored turn.
ReplayMessage ==
    /\ pc = "replay_message"
    /\ Render(Elem("chat_message", chat_msgs[turn + 1][1], <<>>))
    /\ pc' = "replay_write"
    /\ UNCHANGED run_vars
    /\ UNCHANGED data_vars
    /\ UNCHANGED chat_vars

\* Lines 122 and 120: the text of that turn, then the next turn if any.
ReplayWrite ==
    /\ pc = "replay_write"
    /\ Render(Elem("write", "", chat_msgs[turn + 1][2]))
    /\ turn' = turn + 1
    /\ pc' = IF turn' < Len(chat_msgs) THEN "replay_message" ELSE "chat_input"
    /\ UNCHANGED run_vars
    /\ UNCHANGED <<model, prompt, sql, call_result, session_state>>
    /\ UNCHANGED data_vars

\* Lines 124-126: the chat input; chat text is stored as a user turn, and
\* without chat text the run ends.
ChatInput ==
    /\ pc = "chat_input"
    /\ Render(Elem("chat_input", "Ask a question (I can also draft Snowflake SQL)", <<>>))
    /\ IF user_q # NoInput
       THEN /\ session_state' =
                 [session_state EXCEPT !["chat_msgs"] = Append(@, <<"user", user_q>>)]
            /\ pc' = "user_message"
       ELSE /\ session_state' = session_state
            /\ pc' = "idle"
    /\ chat_input_shown' = TRUE
    /\ UNCHANGED <<active_sessions, other_pc, session, handles, reruns, pending, user_q,
                 issued, load_result>>
    /\ UNCHANGED <<model, prompt, sql, call_result, turn>>
    /\ UNCHANGED data_vars

\* Line 127.
UserMessage ==
    /\ pc = "user_message"
    /\ Render(Elem("chat_message", "user", <<>>))
    /\ pc' = "user_write"
    /\ UNCHANGED run_vars
    /\ UNCHANGED data_vars
    /\ UNCHANGED chat_vars

\* Line 128.
UserWrite ==
    /\ pc = "user_write"
    /\ Render(Elem("write", "", user_q))
    /\ pc' = "submitted"
    /\ UNCHANGED run_vars
    /\ UNCHANGED data_vars
    /\ UNCHANGED chat_vars

\* Lines 130-138 and 36-38: the prompt is built and the statement is issued.
\* No st.* call lies on the way, so a pending request does not stop it.
InvokeComplete ==
    /\ pc = "submitted"
    /\ prompt' = BuildPrompt(df_reviews, user_q)
    /\ sql' = CompleteSql(model, prompt')
    /\ issued' = Append(issued, Statement(session, sql'))
    /\ pc' = "awaiting"
    /\ UNCHANGED <<active_sessions, other_pc, session, handles, reruns, pending,
                 chat_input_shown, user_q,
                 load_result>>
    /\ UNCHANGED <<model, call_result, turn, session_state, ui>>
    /\ UNCHANGED data_vars

\* Lines 137-140: the value of `reply` after the try/except.
Reply(res) == IF res.kind = "raised" THEN ApologyPrefix \o res.text ELSE res.text

\* Lines 38 and 137-138: the call returns the first cell of the first row.
CompleteReturn ==
    /\ pc = "awaiting"
    /\ \E r \in ReplyTexts : call_result' = [kind |-> "returned", text |-> r]
    /\ pc' = "reply_message"
    /\ UNCHANGED <<run_vars, ui>>
    /\ UNCHANGED <<model, prompt, sql, turn, session_state>>
    /\ UNCHANGED data_vars

\* Variant of CompleteRaise: the except clause calls cortex_complete again.
CompleteRaiseRetried ==
    /\ pc = "awaiting"
    /\ pc' = "submitted"
    /\ UNCHANGED <<run_vars, ui>>
    /\ UNCHANGED data_vars
    /\ UNCHANGED chat_vars

\* Lines 38 and 137-140: the call raises an Exception whose str() is the
\* detail; the except clause turns it into the reply.
CompleteRaise ==
    /\ pc = "awaiting"
    /\ \E e \in ErrorDetails : call_result' = [kind |-> "raised", text |-> e]
    /\ pc' = "reply_message"
    /\ UNCHANGED <<run_vars, ui>>
    /\ UNCHANGED <<model, prompt, sql, turn, session_state>>
    /\ UNCHANGED data_vars

\* Line 142.
ReplyMessage ==
    /\ pc = "reply_message"
    /\ Render(Elem("chat_message", "assistant", <<>>))
    /\ pc' = "reply_write"
    /\ UNCHANGED run_vars
    /\ UNCHANGED data_vars
    /\ UNCHANGED chat_vars

\* Lines 143-144: the reply is written, then stored, and the run ends.
ReplyWrite ==
    /\ pc = "reply_write"
    /\ Render(Elem("write", "", Reply(call_result)))
    /\ session_state' =
         [session_state EXCEPT !["chat_msgs"] = Append(@, <<"assistant", Reply(call_result)>>)]
    /\ pc' = "idle"
    /\ UNCHANGED run_vars
    /\ UNCHANGED <<model, prompt, sql, call_result, turn>>
    /\ UNCHANGED data_vars

NextWith(questions, tables) ==
    \/ Interact(questions)
    \/ StartRun
    \/ StopAtRender
    \/ GetActiveSession
    \/ CreateSession
    \/ BootstrapRaise
    \/ OtherGetActiveSession
    \/ OtherCreateSession
    \/ Title
    \/ IssueSelect
    \/ LoadReviews(tables)
    \/ LoadRaise
    \/ Caption
    \/ MeanHeader
    \/ MeanBody
    \/ FilterHeader
    \/ FilterBody
    \/ ReviewsHeader
    \/ ReviewsTable
    \/ HistHeader
    \/ HistBody
    \/ ChatRule
    \/ ChatHeader
    \/ ModelSelect
    \/ ReplayMessage
    \/ ReplayWrite
    \/ ChatInput
    \/ UserMessage
    \/ UserWrite
    \/ InvokeComplete
    \/ CompleteReturn
    \/ CompleteRaise
    \/ ReplyMessage
    \/ ReplyWrite

\* One browser session: small tables, one question.
Next == NextWith(ChatQuestions, FewTables)
Spec == Init /\ [][Next]_vars

\* The data pipeline over every small table.
NextData == NextWith(ChatQuestions, DataTables)
SpecData == Init /\ [][NextData]_vars

\* The histogram over tables of many scores.
NextBins == NextWith(ChatQuestions, BinTables)
SpecBins == Init /\ [][NextBins]_vars

\* cortex_complete over every short question.
NextEscape == NextWith(Questions, QuotedTables)
SpecEscape == Init /\ [][NextEscape]_vars

\* ================================================================ properties
IsPrefix(a, b) == Len(a) <= Len(b) /\ SubSeq(b, 1, Len(a)) = a
Embeds(t, d) == \E i \in 1..(Len(t) - Len(d) + 1) : SubSeq(t, i, i + Len(d) - 1) = d
IsException(e) == e.kind = "exception"
NoException(q) == SelectSeq(q, IsException) = <<>>
IsSelect(st) == st.text = SelectSql
IsCompletion(st) == st.text # SelectSql
Selects(q) == Len(SelectSeq(q, IsSelect))
Completions(q) == Len(SelectSeq(q, IsCompletion))
Role(m) == m[1]
Text(m) == m[2]
Last(q) == q[Len(q)]

\* C1: a script run whose completion call has raised ends normally (no
\* exception element is rendered) and with exactly one assistant turn appended
\* for the submission: the step that ends the run finds the user turn of this
\* submission last and appends one turn, an assistant turn whose text
\* contains the detail of the raised error.
C1_RaisedCallBecomesOneAssistantTurn ==
    [][ (call_result.kind = "raised" /\ pc # "idle" /\ pc' = "idle") =>
            /\ Last(chat_msgs) = <<"user", user_q>>
            /\ Len(chat_msgs') = Len(chat_msgs) + 1
            /\ IsPrefix(chat_msgs, chat_msgs')
            /\ Role(Last(chat_msgs')) = "assistant"
            /\ Embeds(Text(Last(chat_msgs')), call_result.text)
            /\ NoException(ui') ]_vars

\* C2: the conversation only grows at its end: in every step the turn
\* sequence before the step is a prefix of the turn sequence after it.
C2_ChatMsgsAppendOnly == [][IsPrefix(chat_msgs, chat_msgs')]_vars

C2_Witness ==
    /\ reruns = 3
    /\ pc = "idle"
    /\ Len(chat_msgs) = 3
    /\ Role(chat_msgs[1]) = "user" /\ Role(chat_msgs[2]) = "user"
    /\ Role(chat_msgs[3]) = "assistant"

\* round(math.sqrt(n)) for n >= 1 (sqrt(n) is never half way between integers).
RoundSqrt(n) ==
    CHOOSE k \in 0..n : (2 * k - 1) * (2 * k - 1) <= 4 * n /\ 4 * n < (2 * k + 1) * (2 * k + 1)

\* C3 as stated: with n >= 1 numeric scores in the filtered subset the bin
\* count is round(sqrt(n)) clamped to [5, 40].
C3_BinsAreRoundedSqrtClamped ==
    (pc = "hist_body" /\ Len(s) >= 1) =>
        /\ MinBins <= bins /\ bins <= MaxBins
        /\ bins = Max(MinBins, Min(MaxBins, RoundSqrt(Len(s))))

\* C3 amended: with n >= 1 numeric scores in the filtered subset the bin count
\* is the square root of n truncated to an integer and clamped to [5, 40]:
\* it lies in [5, 40], above 5 its square is at most n, and below 40 the square
\* of its successor exceeds n.
C3_BinsAreTruncatedSqrtClamped ==
    (pc = "hist_body" /\ Len(s) >= 1) =>
        /\ MinBins <= bins /\ bins <= MaxBins
        /\ bins > MinBins => bins * bins <= Len(s)
        /\ bins < MaxBins => (bins + 1) * (bins + 1) > Len(s)

C3_Witness ==
    /\ pc = "hist_body"
    /\ Len(s) = 31
    /\ bins = 5

\* A row that contributes a value to some group mean.
HasValidValue(df) ==
    \E i \in DOMAIN df.rows :
        NotNull(df.rows[i]["PRODUCT"]) /\ IsNumber(ToNumeric(df.rows[i]["SENTIMENT_SCORE"]))
Shows(kind, text) == \E i \in DOMAIN ui : ui[i].kind = kind /\ ui[i].text = text

\* C4: once the mean-by-category step has run on a table that has both
\* columns and no valid value to aggregate, the page shows the "nothing to
\* aggregate" notice, not the missing-column notice, and no mean chart.
C4_NoValidValuesGivesNotice ==
    ( /\ pc = "filter_head"
      /\ HasColumn(df_reviews, "PRODUCT") /\ HasColumn(df_reviews, "SENTIMENT_SCORE")
      /\ ~HasValidValue(df_reviews) ) =>
        /\ Shows("info", "No sentiment scores to aggregate.")
        /\ ~Shows("info", "Need columns PRODUCT and SENTIMENT_SCORE for this chart.")
        /\ ~Shows("bar_chart", "product_sent")

\* The rows the option at index i of the selectbox stands for: the whole
\* table for the sentinel at index 1, else the rows of that category.
Reference(df, i) ==
    IF i = 1 THEN df
    ELSE LET IsCategory(r) == r["PRODUCT"] = ProductOptions(df)[i]
         IN  [columns |-> df.columns, rows |-> SelectSeq(df.rows, IsCategory)]

\* C5: once the filter step has run on a table with a PRODUCT column, the
\* filtered view is the reference result of the selected option: the whole
\* table for the sentinel, else exactly the rows of the selected category.
C5_FilteredEqualsReference ==
    (pc = "reviews_head" /\ HasColumn(df_reviews, "PRODUCT")) =>
        filtered = Reference(df_reviews, choice)

IsQuote(c) == c = Quote
NotQuote(c) == c # Quote
RECURSIVE Doubled(_)
Doubled(p) ==
    IF p = <<>> THEN <<>>
    ELSE (IF Head(p) = Quote THEN <<Quote, Quote>> ELSE <<Head(p)>>) \o Doubled(Tail(p))
\* The prompt literal of a completion statement: what stands between the
\* opening "', '" and the closing "') AS RESP".
PromptLiteral(q) == SubSeq(q, 4, Len(q) - 1)

\* C6: in the statement built for a completion call the prompt literal is the
\* prompt with each single quote doubled and everything else as it was, in
\* order; replacing each doubled quote by one quote gives the prompt back.
C6_PromptLiteralDoublesQuotes ==
    (sql # <<>>) =>
        LET lit == PromptLiteral(sql)
        IN  /\ lit = Doubled(prompt)
            /\ SelectSeq(lit, NotQuote) = SelectSeq(prompt, NotQuote)
            /\ Len(SelectSeq(lit, IsQuote)) = 2 * Len(SelectSeq(prompt, IsQuote))
            /\ Replace(lit, <<Quote, Quote>>, <<Quote>>) = prompt

C6_Witness ==
    /\ pc = "awaiting"
    /\ user_q = <<Quote, Quote>>
    /\ Len(SelectSeq(PromptLiteral(sql), IsQuote)) = 6

\* C7: in one script run the fixed SELECT is issued at most once and the
\* completion statement at most once, the latter only when chat text was
\* submitted, whether the calls return or raise.
C7_EachCallAtMostOncePerRun ==
    /\ Selects(issued) <= 1
    /\ Completions(issued) <= 1
    /\ Completions(issued) = 1 => user_q # NoInput

C7_Witness ==
    /\ pc = "idle"
    /\ call_result.kind = "raised"
    /\ Selects(issued) = 1
    /\ Completions(issued) = 1

\* C8: the runs of one browser session bind one session handle at most (a
\* later run takes the handle an earlier run has bound, it does not build
\* another), and every statement is issued on that handle.
C8_HandleAcquiredOnce ==
    /\ Cardinality(handles) <= 1
    /\ \A i \in DOMAIN issued : issued[i].handle \in handles

Phase == IF pc \in {"user_message", "user_write", "submitted"} THEN "UserSubmitted"
         ELSE IF pc \in {"awaiting", "reply_message", "reply_write"}
              THEN "AwaitingCompletion"
         ELSE "Idle"
Alternates(q) ==
    \A i \in DOMAIN q : Role(q[i]) = (IF i % 2 = 1 THEN "user" ELSE "assistant")
C9_PhaseInv ==
    /\ Alternates(chat_msgs)
    /\ Phase = "Idle" => Len(chat_msgs) % 2 = 0
    /\ Phase = "UserSubmitted" =>
          /\ Len(chat_msgs) % 2 = 1
          /\ Last(chat_msgs) = <<"user", user_q>>
          /\ Completions(issued) = 0
          /\ call_result = NoResult
    /\ Phase = "AwaitingCompletion" =>
          /\ Len(chat_msgs) % 2 = 1
          /\ Last(chat_msgs) = <<"user", user_q>>
          /\ Completions(issued) = 1
          /\ pc = "awaiting" => call_result = NoResult
C9_PhaseStep ==
    /\ Phase' # Phase =>
          \/ /\ Phase = "Idle" /\ Phase' = "UserSubmitted"
             /\ chat_msgs' = Append(chat_msgs, <<"user", user_q>>)
          \/ /\ Phase = "UserSubmitted" /\ Phase' = "AwaitingCompletion"
             /\ chat_msgs' = chat_msgs
          \/ /\ Phase = "AwaitingCompletion" /\ Phase' = "Idle"
             /\ call_result' # NoResult
             /\ chat_msgs' = Append(chat_msgs, <<"assistant", Text(Last(chat_msgs'))>>)
    /\ Phase' = Phase => chat_msgs' = chat_msgs

\* C9: the chat phases follow Idle -> UserSubmitted -> AwaitingCompletion ->
\* Idle and no other order; entering UserSubmitted appends the user turn
\* before any completion statement is issued, leaving AwaitingCompletion
\* appends the assistant turn once the call has returned or raised, nothing
\* else changes the turns, and while Idle the turn sequence has even length
\* and alternates user, assistant.
C9_ChatTurnOrder == [][C9_PhaseInv /\ C9_PhaseStep /\ C9_PhaseInv']_vars

\* C10: the step in which the fixed SELECT raises ends the script run with
\* the exception shown: no table, chart, filter or chat element is produced,
\* no completion statement is issued and st.session_state is as it was, also
\* when the run was started by a chat submission.
C10_FailedSelectHaltsRun ==
    [][ (pc = "loading" /\ load_result' = "raised") =>
            /\ pc' = "idle"
            /\ ui' = Append(ui, Elem("exception", "", <<>>))
            /\ session_state' = session_state
            /\ Completions(issued') = 0
            /\ UNCHANGED data_vars
            /\ UNCHANGED <<model, prompt, sql, call_result>> ]_vars

C10_Witness ==
    /\ pc = "idle"
    /\ load_result = "raised"
    /\ user_q # NoInput
    /\ Len(chat_msgs) = 2
====
